---- MODULE Spec2Model ----
(***************************************************************************)
(* imgproc.convolution: one call of the convolution engine, pixel by       *)
(* pixel.  The repository holds two copies of the function.  The model     *)
(* follows the one that promotes scalar kernels and takes the default size *)
(* from a static kernel's length; src/convolution.js is the copy that does *)
(* neither and is otherwise the same.  base.js supplies Pixel,             *)
(* getPixelLocation and getPixel.                                          *)
(***************************************************************************)
EXTENDS Integers, Sequences, FiniteSets

VARIABLES wnd,            \* process-wide state: wnd.CONV_IMG_DATA ("undefined" or a
                          \* reference to imgData) and imgproc.defaults
          imgData,        \* the source ImageData: width, height, data
          kernel_source,  \* the kernel argument: an Array grid or a Function
          size_arg,       \* the size argument; 0 stands for an omitted one
          caller_kernel,  \* the kernel argument as the caller passed it
          resultData,     \* the ImageData under construction
          size, half_size,
          x, y,           \* loop position
          area, kernel,   \* locals of the last loop iteration
          area_sum, kernel_sum, area_avg,
          pc,             \* "idle", "loop", "returned", "threw"
          error,          \* the exception that left the call, "" if none
          returned        \* what the call returned: "nothing", or a reference
                          \* to resultData

vars == <<wnd, imgData, kernel_source, size_arg, caller_kernel, resultData,
          size, half_size, x, y, area, kernel, area_sum, kernel_sum,
          area_avg, pc, error, returned>>

----------------------------------------------------------------------------
(* Bounds of the model *)

MaxDim == 3       \* images are W x H with 1 <= W, H <= MaxDim
MaxSize == 3      \* size arguments and kernel side lengths are 1..MaxSize

kernel_size == 5  \* imgproc.defaults.kernel_size

----------------------------------------------------------------------------
(* JavaScript values.  A value is a record [k, v]: a finite integer number, *)
(* NaN, an infinity (v is its sign), undefined, an object, or a string     *)
(* that is no numeral.  Channel sums stay integers far below 2^53, so      *)
(* number arithmetic on them is exact.                                     *)

Num(n) == [k |-> "num", v |-> n]
NaN == [k |-> "nan", v |-> 0]
Infinity(sign) == [k |-> "inf", v |-> sign]
Undefined == [k |-> "undefined", v |-> 0]
Object == [k |-> "object", v |-> 0]
NonNumericString == [k |-> "string", v |-> 0]

\* ToNumber: undefined, a plain object and a non-numeral string give NaN
ToNumber(a) == IF a.k \in {"undefined", "object", "string"} THEN NaN ELSE a

Sign(n) == IF n > 0 THEN 1 ELSE IF n < 0 THEN -1 ELSE 0

\* a * b
JsMul(a, b) ==
  LET p == ToNumber(a)
      q == ToNumber(b)
  IN  IF p.k = "nan" \/ q.k = "nan" THEN NaN
      ELSE IF p.k = "num" /\ q.k = "num" THEN Num(p.v * q.v)
      ELSE IF Sign(p.v) * Sign(q.v) = 0 THEN NaN
      ELSE Infinity(Sign(p.v) * Sign(q.v))

\* a + b (as in sum += b): string concatenation once an object or a string
\* is involved, numeric addition otherwise
JsAdd(a, b) ==
  IF a.k \in {"object", "string"} \/ b.k \in {"object", "string"}
  THEN NonNumericString
  ELSE LET p == ToNumber(a)
           q == ToNumber(b)
       IN  IF p.k = "nan" \/ q.k = "nan" THEN NaN
           ELSE IF p.k = "num" /\ q.k = "num" THEN Num(p.v + q.v)
           ELSE IF p.k = "inf" /\ q.k = "inf" /\ p.v # q.v THEN NaN
           ELSE IF p.k = "inf" THEN p ELSE q

\* floor of the integer quotient n / d, d # 0
FloorQuot(n, d) == IF d > 0 THEN n \div d ELSE (0 - n) \div (0 - d)

\* Math.floor(a / b)
FloorDiv(a, b) ==
  LET p == ToNumber(a)
      q == ToNumber(b)
  IN  IF p.k = "nan" \/ q.k = "nan" THEN NaN
      ELSE IF p.k = "inf" /\ q.k = "inf" THEN NaN
      ELSE IF p.k = "inf"
           THEN Infinity(IF q.v < 0 THEN 0 - p.v ELSE p.v)
      ELSE IF q.k = "inf" THEN Num(IF Sign(p.v) * q.v < 0 THEN -1 ELSE 0)
      ELSE IF q.v = 0
           THEN (IF p.v = 0 THEN NaN ELSE Infinity(Sign(p.v)))
      ELSE Num(FloorQuot(p.v, q.v))

\* A store into ImageData.data, a Uint8ClampedArray: NaN becomes 0, every
\* other number is clamped to 0..255 (the values stored here are integers
\* or infinities, so no rounding takes place)
ToUint8Clamp(a) ==
  LET p == ToNumber(a)
  IN  IF p.k = "nan" THEN 0
      ELSE IF p.k = "inf" THEN (IF p.v > 0 THEN 255 ELSE 0)
      ELSE IF p.v < 0 THEN 0
      ELSE IF p.v > 255 THEN 255
      ELSE p.v

----------------------------------------------------------------------------
(* base.js *)

\* new imgproc.Pixel(...args): the five forms of the constructor.  A kernel
\* cell is a Pixel object or a Number; both are records of one shape, a
\* Number having no r, g, b, a properties (they read as undefined).
Pixel(args) ==
  LET n == Len(args)
      rgba == IF n = 0 THEN <<Num(0), Num(0), Num(0), Num(255)>>
              ELSE IF n = 1 THEN <<args[1], args[1], args[1], Num(255)>>
              ELSE IF n = 2 THEN <<args[1], args[1], args[1], args[2]>>
              ELSE IF n = 3 THEN <<args[1], args[2], args[3], Num(255)>>
              ELSE <<args[1], args[2], args[3], args[4]>>
  IN  [constructor |-> "Pixel", n |-> Undefined,
       r |-> rgba[1], g |-> rgba[2], b |-> rgba[3], a |-> rgba[4]]

\* A bare number as a kernel cell
Number(n) ==
  [constructor |-> "Number", n |-> Num(n),
   r |-> Undefined, g |-> Undefined, b |-> Undefined, a |-> Undefined]

\* A kernel cell passed as an argument: the number itself, or the object
AsValue(cell) == IF cell.constructor = "Number" THEN cell.n ELSE Object

\* imgproc.getPixelLocation
getPixelLocation(img, px, py) == (py * img.width + px) * 4

\* An element of ImageData.data by its 0-based index; undefined outside it
DataAt(img, i) ==
  IF i >= 0 /\ i < Len(img.data) THEN Num(img.data[i + 1]) ELSE Undefined

\* imgproc.getPixel
getPixel(img, px, py) ==
  LET pl == getPixelLocation(img, px, py)
  IN  Pixel(<<DataAt(img, pl), DataAt(img, pl + 1),
              DataAt(img, pl + 2), DataAt(img, pl + 3)>>)

----------------------------------------------------------------------------
(* convolution.js: the steps of imgproc.convolution *)

\* The size as it would be were a static kernel's length never consulted
ResolveSizeDefaultOnly(sz, ks, w) ==
  IF sz # 0 THEN sz ELSE w.defaults.kernel_size

\* size = size || (kernel_source.constructor === Array
\*                   ? kernel_source.length : imgproc.defaults.kernel_size)
ResolveSize(sz, ks, w) ==
  IF sz # 0 THEN sz
  ELSE IF ks.constructor = "Array" THEN Len(ks.grid)
  ELSE w.defaults.kernel_size

\* half_size = Math.floor(size/2)
HalfSize(sz) == sz \div 2

\* The box as it would be were its right and bottom edges never clipped
ClipAreaLeftTopOnly(img, cx, cy, h) ==
  [left   |-> IF cx - h < 0 THEN 0 ELSE cx - h,
   top    |-> IF cy - h < 0 THEN 0 ELSE cy - h,
   right  |-> cx + h,
   bottom |-> cy + h]

\* The area's box around (cx, cy), clipped at the image edges
ClipArea(img, cx, cy, h) ==
  LET l == cx - h
      t == cy - h
      r == cx + h
      b == cy + h
  IN  [left   |-> IF l < 0 THEN 0 ELSE l,
       top    |-> IF t < 0 THEN 0 ELSE t,
       right  |-> IF r >= img.width THEN img.width - 1 ELSE r,
       bottom |-> IF b >= img.height THEN img.height - 1 ELSE b]

\* The area with its pixels loaded, row by row
LoadArea(img, cx, cy, h) ==
  LET box == ClipArea(img, cx, cy, h)
  IN  [left |-> box.left, top |-> box.top,
       right |-> box.right, bottom |-> box.bottom,
       center |-> [x |-> cx, y |-> cy],
       pixels |-> [j \in 1..(box.bottom - box.top + 1) |->
                    [i \in 1..(box.right - box.left + 1) |->
                      getPixel(img, box.left + i - 1, box.top + j - 1)]]]

AreaRows(ar) == Len(ar.pixels)
AreaCols(ar) == IF Len(ar.pixels) = 0 THEN 0 ELSE Len(ar.pixels[1])

\* A kernel generator: it returns a new grid of the area's shape, its
\* pattern repeated over the area
KernelFunction(ks, ar) ==
  LET n == Len(ks.grid)
  IN  [j \in 1..AreaRows(ar) |->
        [i \in 1..AreaCols(ar) |->
          ks.grid[((j - 1) % n) + 1][((i - 1) % n) + 1]]]

\* kernel = kernel_source(area) for a Function, kernel_source otherwise
ResolveKernel(ks, ar) ==
  IF ks.constructor = "Function" THEN KernelFunction(ks, ar) ELSE ks.grid

\* The kernel as it would be were scalar cells never promoted
PromoteKernelNever(kn) == kn

\* if (kernel[0][0].constructor === Number) every cell becomes
\* new imgproc.Pixel(cell), in place
PromoteKernel(kn) ==
  IF kn[1][1].constructor = "Number"
  THEN [i \in 1..Len(kn) |->
         [j \in 1..Len(kn[i]) |-> Pixel(<<AsValue(kn[i][j])>>)]]
  ELSE kn

\* The accumulation loop reads kernel[j][i] for every cell of the area;
\* a missing row or a missing cell ends it with a TypeError
ThrowsTypeError(ar, kn) ==
  \E j \in 1..AreaRows(ar) : \E i \in 1..AreaCols(ar) :
      IF j > Len(kn) THEN TRUE ELSE i > Len(kn[j])

\* The cell of the area's grid the loop visits c-th (rows outside, columns
\* inside), as its row and column
CellRow(ar, c) == ((c - 1) \div AreaCols(ar)) + 1
CellCol(ar, c) == ((c - 1) % AreaCols(ar)) + 1

\* area_sum[ch] after the first c cells: sum += apixel[ch] * kpixel[ch]
RECURSIVE AreaSum(_, _, _, _)
AreaSum(ar, kn, ch, c) ==
  IF c = 0 THEN Pixel(<<>>)[ch]
  ELSE JsAdd(AreaSum(ar, kn, ch, c - 1),
             JsMul(ar.pixels[CellRow(ar, c)][CellCol(ar, c)][ch],
                   kn[CellRow(ar, c)][CellCol(ar, c)][ch]))

\* kernel_sum[ch] after the first c cells: sum += kpixel[ch]
RECURSIVE KernelSum(_, _, _, _)
KernelSum(ar, kn, ch, c) ==
  IF c = 0 THEN Pixel(<<>>)[ch]
  ELSE JsAdd(KernelSum(ar, kn, ch, c - 1),
             kn[CellRow(ar, c)][CellCol(ar, c)][ch])

\* area_sum and kernel_sum when the accumulation loop ends: the r, g and b
\* of a new Pixel each, summed over every cell of the area
AreaSums(ar, kn) ==
  [Pixel(<<>>) EXCEPT
     !.r = AreaSum(ar, kn, "r", AreaRows(ar) * AreaCols(ar)),
     !.g = AreaSum(ar, kn, "g", AreaRows(ar) * AreaCols(ar)),
     !.b = AreaSum(ar, kn, "b", AreaRows(ar) * AreaCols(ar))]

\* kernel_sum as it would be were it taken over the whole kernel grid rather
\* than over the cells the area has
KernelSumsWholeKernel(ar, kn) ==
  [Pixel(<<>>) EXCEPT
     !.r = KernelSum([pixels |-> kn], kn, "r", Len(kn) * Len(kn[1])),
     !.g = KernelSum([pixels |-> kn], kn, "g", Len(kn) * Len(kn[1])),
     !.b = KernelSum([pixels |-> kn], kn, "b", Len(kn) * Len(kn[1]))]

KernelSums(ar, kn) ==
  [Pixel(<<>>) EXCEPT
     !.r = KernelSum(ar, kn, "r", AreaRows(ar) * AreaCols(ar)),
     !.g = KernelSum(ar, kn, "g", AreaRows(ar) * AreaCols(ar)),
     !.b = KernelSum(ar, kn, "b", AreaRows(ar) * AreaCols(ar))]

\* area_avg: the floored quotient of the sums, channel by channel
Average(as, ks) ==
  Pixel(<<FloorDiv(as.r, ks.r), FloorDiv(as.g, ks.g), FloorDiv(as.b, ks.b)>>)

\* The four stores of the convolved pixel into resultData.data
StorePixel(res, pixloc, avg) ==
  [res EXCEPT !.data =
     [n \in 1..Len(res.data) |->
        IF n = pixloc + 1 THEN ToUint8Clamp(avg.r)
        ELSE IF n = pixloc + 2 THEN ToUint8Clamp(avg.g)
        ELSE IF n = pixloc + 3 THEN ToUint8Clamp(avg.b)
        ELSE IF n = pixloc + 4 THEN 255
        ELSE res.data[n]]]

\* The result buffer as it would be with width and height exchanged
NewImageDataTransposed(w, h) ==
  [width |-> h, height |-> w, data |-> [n \in 1..(w * h * 4) |-> 0]]

\* new ImageData(width, height): transparent black
NewImageData(w, h) ==
  [width |-> w, height |-> h, data |-> [n \in 1..(w * h * 4) |-> 0]]

----------------------------------------------------------------------------
(* The inputs of a call *)

\* Channel values of the test images, by pixel number and channel
Seeds == {10}

TestImage(w, h, seed) ==
  [width |-> w, height |-> h,
   data |-> [n \in 1..(w * h * 4) |->
              (seed * (((n - 1) \div 4) + 1) * (((n - 1) % 4) + 1)) % 256]]

\* Every image up to MaxDim x MaxDim, and the square image one larger
Images ==
  {TestImage(w, h, s) : w \in 1..MaxDim, h \in 1..MaxDim, s \in Seeds} \cup
  {TestImage(MaxDim + 1, MaxDim + 1, s) : s \in Seeds}

\* Kernel cells: bare numbers and Pixel weights.  The weights are integers:
\* their products, sums and quotients are exact in double precision, which
\* those of fractional weights need not be
Weights == {-1, 0, 1, 2}
GrayPixel(n) == Pixel(<<Num(n), Num(n), Num(n), Num(255)>>)
Cells == {Number(n) : n \in Weights}
           \cup {GrayPixel(1), Pixel(<<Num(1), Num(0), Num(2)>>)}
OtherCells == {Number(1), GrayPixel(1)}

\* The n x n grid of cell o with cell d at row pj, column pi
Grid(n, pj, pi, d, o) ==
  [j \in 1..n |-> [i \in 1..n |-> IF j = pj /\ i = pi THEN d ELSE o]]

Grids ==
  {Grid(n, 1, 1, d, d) : n \in 1..MaxSize, d \in Cells} \cup
  UNION {{Grid(n, p, p, d, o) : p \in 1..n, d \in Cells, o \in OtherCells}
         : n \in 1..MaxSize}

KernelSources ==
  {[constructor |-> c, grid |-> g] : c \in {"Array", "Function"}, g \in Grids}

NoImageData == [width |-> 0, height |-> 0, data |-> <<>>]
NoArea == [left |-> 0, top |-> 0, right |-> 0, bottom |-> 0,
           center |-> [x |-> 0, y |-> 0], pixels |-> <<>>]

----------------------------------------------------------------------------
(* The state machine *)

Init ==
  /\ wnd = [CONV_IMG_DATA |-> "undefined",
            defaults |-> [kernel_size |-> kernel_size]]
  /\ imgData \in Images
  /\ kernel_source \in KernelSources
  /\ size_arg \in 0..MaxSize
  /\ caller_kernel = kernel_source
  /\ resultData = NoImageData
  /\ size = 0
  /\ half_size = 0
  /\ x = 0
  /\ y = 0
  /\ area = NoArea
  /\ kernel = <<>>
  /\ area_sum = Pixel(<<>>)
  /\ kernel_sum = Pixel(<<>>)
  /\ area_avg = Pixel(<<>>)
  /\ pc = "idle"
  /\ error = ""
  /\ returned = "nothing"

\* The call up to the loop: the source is an ImageData
Call ==
  /\ pc = "idle"
  /\ wnd' = [wnd EXCEPT !.CONV_IMG_DATA = "imgData"]
  /\ resultData' = NewImageData(imgData.width, imgData.height)
  /\ size' = ResolveSize(size_arg, kernel_source, wnd)
  /\ half_size' = HalfSize(size')
  /\ x' = 0
  /\ y' = 0
  /\ pc' = "loop"
  /\ UNCHANGED <<imgData, kernel_source, size_arg, caller_kernel, area,
                 kernel, area_sum, kernel_sum, area_avg, error, returned>>

\* The static kernel is the caller's own grid, so the promotion in place
\* shows in kernel_source; a generator's grid is the call's own
AfterPromotion(ks, kn) ==
  IF ks.constructor = "Array" THEN [ks EXCEPT !.grid = kn] ELSE ks

\* One iteration of the loop body that runs to its end
ConvolvePixel ==
  /\ pc = "loop"
  /\ y < imgData.height
  /\ area' = LoadArea(imgData, x, y, half_size)
  /\ kernel' = PromoteKernel(ResolveKernel(kernel_source, area'))
  /\ kernel_source' = AfterPromotion(kernel_source, kernel')
  /\ ~ThrowsTypeError(area', kernel')
  /\ area_sum' = AreaSums(area', kernel')
  /\ kernel_sum' = KernelSums(area', kernel')
  /\ area_avg' = Average(area_sum', kernel_sum')
  /\ resultData' =
       StorePixel(resultData, getPixelLocation(imgData, x, y), area_avg')
  /\ IF x + 1 < imgData.width
     THEN x' = x + 1 /\ y' = y
     ELSE x' = 0 /\ y' = y + 1
  /\ UNCHANGED <<wnd, imgData, size_arg, caller_kernel, size, half_size,
                 pc, error, returned>>

\* One iteration of the loop body that ends in a TypeError, which leaves
\* the call; the promotion of a static kernel has already taken place
ConvolvePixelThrows ==
  /\ pc = "loop"
  /\ y < imgData.height
  /\ area' = LoadArea(imgData, x, y, half_size)
  /\ kernel' = PromoteKernel(ResolveKernel(kernel_source, area'))
  /\ kernel_source' = AfterPromotion(kernel_source, kernel')
  /\ ThrowsTypeError(area', kernel')
  /\ pc' = "threw"
  /\ error' = "TypeError"
  /\ UNCHANGED <<wnd, imgData, size_arg, caller_kernel, resultData, size,
                 half_size, x, y, area_sum, kernel_sum, area_avg, returned>>

\* return resultData
Return ==
  /\ pc = "loop"
  /\ y >= imgData.height
  /\ returned' = "resultData"
  /\ pc' = "returned"
  /\ UNCHANGED <<wnd, imgData, kernel_source, size_arg, caller_kernel,
                 resultData, size, half_size, x, y, area, kernel, area_sum,
                 kernel_sum, area_avg, error>>

Next == Call \/ ConvolvePixel \/ ConvolvePixelThrows \/ Return

Spec == Init /\ [][Next]_vars

----------------------------------------------------------------------------
(* Vocabulary of the properties *)

Channels == {"r", "g", "b"}
ChannelOffset(ch) == IF ch = "r" THEN 0 ELSE IF ch = "g" THEN 1 ELSE 2

\* The output coordinates the loop has passed, in loop order
Written(px, py) ==
  /\ pc \in {"loop", "returned", "threw"}
  /\ px \in 0..(imgData.width - 1)
  /\ py \in 0..(imgData.height - 1)
  /\ py * imgData.width + px < y * imgData.width + x

Coordinates == (0..(imgData.width - 1)) \X (0..(imgData.height - 1))

\* A byte of the input and of the output at a coordinate
InByte(px, py, ch) ==
  imgData.data[(py * imgData.width + px) * 4 + ChannelOffset(ch) + 1]
OutByte(px, py, ch) ==
  resultData.data[(py * imgData.width + px) * 4 + ChannelOffset(ch) + 1]
OutAlpha(px, py) == resultData.data[(py * imgData.width + px) * 4 + 4]

Abs(n) == IF n < 0 THEN 0 - n ELSE n

\* The in-bounds coordinates of the window around (px, py)
Neighbourhood(px, py) ==
  {c \in Coordinates :
     Abs(c[1] - px) <= half_size /\ Abs(c[2] - py) <= half_size}

\* The window around (px, py) reaches over an edge of the image
Clamped(px, py) ==
  \/ px - half_size < 0
  \/ py - half_size < 0
  \/ px + half_size > imgData.width - 1
  \/ py + half_size > imgData.height - 1

RECURSIVE ByteSum(_, _)
ByteSum(S, ch) ==
  IF S = {} THEN 0
  ELSE LET c == CHOOSE e \in S : TRUE
       IN  InByte(c[1], c[2], ch) + ByteSum(S \ {c}, ch)

\* The floored mean of a channel over the in-bounds neighbourhood
FlooredMean(px, py, ch) ==
  ByteSum(Neighbourhood(px, py), ch) \div Cardinality(Neighbourhood(px, py))

\* The weight a kernel cell carries for a channel once promoted: a finite
\* integer for every cell of Cells
CellWeight(cell, ch) ==
  IF cell.constructor = "Number" THEN cell.n.v ELSE cell[ch].v

\* Every cell of the grid is the same cell
UniformGrid(g) ==
  \A j \in 1..Len(g) : \A i \in 1..Len(g[j]) : g[j][i] = g[1][1]

Corners ==
  {<<0, 0>>, <<imgData.width - 1, 0>>, <<0, imgData.height - 1>>,
   <<imgData.width - 1, imgData.height - 1>>}

\* The kernel source with every bare number written out as a Pixel
ExplicitSource(ks) ==
  [ks EXCEPT !.grid =
     [j \in 1..Len(ks.grid) |->
       [i \in 1..Len(ks.grid[j]) |->
         IF ks.grid[j][i].constructor = "Number"
         THEN GrayPixel(ks.grid[j][i].n.v)
         ELSE ks.grid[j][i]]]]

\* The pixel the last iteration would have stored under that kernel
ExplicitAverage ==
  Average(AreaSums(area, ResolveKernel(ExplicitSource(caller_kernel), area)),
          KernelSums(area, ResolveKernel(ExplicitSource(caller_kernel), area)))

\* Every cell of the grid is a bare number
NumberGrid(g) ==
  \A j \in 1..Len(g) : \A i \in 1..Len(g[j]) :
      g[j][i].constructor = "Number"

\* The call is one with a static 1x1 kernel of weight 1 and no size
IdentityKernelGiven ==
  /\ caller_kernel.constructor = "Array"
  /\ Len(caller_kernel.grid) = 1
  /\ Len(caller_kernel.grid[1]) = 1
  /\ \A ch \in Channels : CellWeight(caller_kernel.grid[1][1], ch) = 1
  /\ size_arg = 0

Max(a, b) == IF a > b THEN a ELSE b
Min(a, b) == IF a < b THEN a ELSE b

\* The coordinate of the last iteration: where the loop stands if it
\* threw, the coordinate before that if it went on
LastCoordinate ==
  IF pc = "threw" THEN [x |-> x, y |-> y]
  ELSE IF x > 0 THEN [x |-> x - 1, y |-> y]
  ELSE [x |-> imgData.width - 1, y |-> y - 1]

----------------------------------------------------------------------------
----------------------------------------------------------------------------
(* C2.  Interior uniform-kernel averaging: with a kernel of one cell       *)
(* repeated, whatever its weight, every output pixel whose window is not   *)
(* clamped has, in each colour channel, the floored mean of that channel   *)
(* over its window; the centre of the 3x3 image with reds 10..90 under a   *)
(* 3x3 kernel of ones and size 3 has a red of 50.                          *)
InteriorAveraging ==
  \A c \in Coordinates :
    (/\ Written(c[1], c[2])
     /\ ~Clamped(c[1], c[2])
     /\ UniformGrid(caller_kernel.grid)
     /\ \A ch \in Channels :
          CellWeight(caller_kernel.grid[1][1], ch) =
            CellWeight(caller_kernel.grid[1][1], "r"))
    => \A ch \in Channels :
         OutByte(c[1], c[2], ch) = FlooredMean(c[1], c[2], ch)

\* The part of C2 that the code keeps: the same with a nonzero weight
InteriorAveragingNonzero ==
  \A c \in Coordinates :
    (/\ Written(c[1], c[2])
     /\ ~Clamped(c[1], c[2])
     /\ UniformGrid(caller_kernel.grid)
     /\ \A ch \in Channels : CellWeight(caller_kernel.grid[1][1], ch) # 0)
    => \A ch \in Channels :
         OutByte(c[1], c[2], ch) = FlooredMean(c[1], c[2], ch)

\* The scenario of C2: its call returns with a centre red of 50
InteriorScenario ==
  (/\ pc \in {"returned", "threw"}
   /\ imgData = TestImage(3, 3, 10)
   /\ caller_kernel = [constructor |-> "Array",
                       grid |-> Grid(3, 1, 1, Number(1), Number(1))]
   /\ size_arg = 3)
  => pc = "returned" /\ OutByte(1, 1, "r") = 50

----------------------------------------------------------------------------
(* C3.  Scalar kernel promotion: whatever the kernel, every convolved      *)
(* pixel has the r, g and b it would have had with each bare number n of   *)
(* the kernel given as the Pixel (n,n,n,255) instead.                      *)

ScalarPromotion ==
  (pc \in {"loop", "returned"} /\ area # NoArea)
  => \A ch \in Channels :
       OutByte(area.center.x, area.center.y, ch) =
         ToUint8Clamp(ExplicitAverage[ch])

\* The part of C3 that the code keeps: the same for a kernel whose cells
\* are all bare numbers
ScalarPromotionOfNumberGrids ==
  (pc \in {"loop", "returned"} /\ area # NoArea
     /\ NumberGrid(caller_kernel.grid))
  => \A ch \in Channels :
       OutByte(area.center.x, area.center.y, ch) =
         ToUint8Clamp(ExplicitAverage[ch])

----------------------------------------------------------------------------
(* C4.  Degenerate kernel rejection: once the weights applied at an output *)
(* coordinate sum to zero for r, g or b, the call has failed with a        *)
(* DegenerateKernelError and returns no buffer.                            *)
DegenerateKernelRejected ==
  (/\ area # NoArea
   /\ ~ThrowsTypeError(area, kernel)
   /\ \E ch \in Channels : ToNumber(kernel_sum[ch]) = Num(0))
  => /\ pc = "threw"
     /\ error = "DegenerateKernelError"
     /\ returned = "nothing"

----------------------------------------------------------------------------
(* C5.  Kernel shape check: once the resolved kernel's shape differs from  *)
(* the shape of the area's pixel grid at an output coordinate, the call    *)
(* has failed with a KernelShapeError.                                     *)
KernelShapeChecked ==
  (/\ area # NoArea
   /\ \/ Len(kernel) # AreaRows(area)
      \/ \E j \in 1..Len(kernel) : Len(kernel[j]) # AreaCols(area))
  => pc = "threw" /\ error = "KernelShapeError"

----------------------------------------------------------------------------
(* C6.  Size resolution: a size given is the size used; with none given,   *)
(* the size is the number of rows of a static grid and 5 for a generator;  *)
(* half_size is the floor of half the size.                                *)
SizeResolution ==
  pc # "idle" =>
    /\ size_arg # 0 => size = size_arg
    /\ (size_arg = 0 /\ caller_kernel.constructor = "Array")
         => size = Len(caller_kernel.grid)
    /\ (size_arg = 0 /\ caller_kernel.constructor = "Function") => size = 5
    /\ 2 * half_size <= size
    /\ size < 2 * half_size + 2

\* A call without a size on a static grid of 2 rows has returned, having
\* run with size 2 and half_size 1
SizeResolutionWitness ==
  /\ pc = "returned"
  /\ size_arg = 0
  /\ caller_kernel.constructor = "Array"
  /\ Len(caller_kernel.grid) = 2
  /\ size = 2
  /\ half_size = 1
  /\ imgData.width = 2

----------------------------------------------------------------------------
(* C7.  Identity kernel: a static 1x1 kernel of weight 1 on r, g and b and *)
(* no size argument never fails, and every output pixel has the input's    *)
(* r, g and b at its coordinate and an alpha of 255.                       *)
IdentityKernel ==
  IdentityKernelGiven =>
    /\ pc # "threw"
    /\ \A c \in Coordinates :
         Written(c[1], c[2]) =>
           /\ \A ch \in Channels :
                OutByte(c[1], c[2], ch) = InByte(c[1], c[2], ch)
           /\ OutAlpha(c[1], c[2]) = 255

\* The call has returned for a 3x3 image whose pixels differ and whose
\* alphas are not 255, under the 1x1 kernel given as a bare 1
IdentityKernelWitness ==
  /\ IdentityKernelGiven
  /\ caller_kernel.grid[1][1].constructor = "Number"
  /\ pc = "returned"
  /\ imgData.width = 3
  /\ imgData.height = 3
  /\ imgData.data[4] # 255
  /\ OutByte(2, 2, "g") = InByte(2, 2, "g")
  /\ OutByte(2, 2, "g") # OutByte(0, 0, "g")

----------------------------------------------------------------------------
(* C8.  Purity: when the call is over, the process-wide state and the      *)
(* caller's kernel grid are what they were before it.                      *)
Purity ==
  pc \in {"returned", "threw"} =>
    /\ wnd = [CONV_IMG_DATA |-> "undefined",
              defaults |-> [kernel_size |-> kernel_size]]
    /\ kernel_source = caller_kernel

\* The two parts of C8, apart
GlobalsUntouched ==
  pc \in {"returned", "threw"} => wnd.CONV_IMG_DATA = "undefined"
KernelUntouched ==
  pc \in {"returned", "threw"} => kernel_source = caller_kernel

----------------------------------------------------------------------------
(* C9.  Dimension preservation: the buffer a call returns is the one it    *)
(* allocated, with the input's width and height and four bytes a pixel.    *)
DimensionPreservation ==
  pc = "returned" =>
    /\ returned = "resultData"
    /\ resultData.width = imgData.width
    /\ resultData.height = imgData.height
    /\ Len(resultData.data) = imgData.width * imgData.height * 4

\* A call on an image wider than high has returned, under a generator
DimensionPreservationWitness ==
  /\ pc = "returned"
  /\ returned = "resultData"
  /\ kernel_source.constructor = "Function"
  /\ imgData.width = 3
  /\ imgData.height = 2
  /\ resultData.width = 3
  /\ resultData.height = 2

----------------------------------------------------------------------------
(* C10.  Neighbourhood clamping: the area of every iteration is the window *)
(* around its centre cut to the image, its grid has bottom-top+1 rows of   *)
(* right-left+1 pixels, and each of them is the input pixel at its own     *)
(* in-range coordinate.                                                    *)
NeighbourhoodClamping ==
  area # NoArea =>
    /\ area.center = LastCoordinate
    /\ area.left = Max(area.center.x - half_size, 0)
    /\ area.right = Min(area.center.x + half_size, imgData.width - 1)
    /\ area.top = Max(area.center.y - half_size, 0)
    /\ area.bottom = Min(area.center.y + half_size, imgData.height - 1)
    /\ 0 <= area.left /\ area.left <= area.center.x
    /\ area.center.x <= area.right /\ area.right <= imgData.width - 1
    /\ 0 <= area.top /\ area.top <= area.center.y
    /\ area.center.y <= area.bottom /\ area.bottom <= imgData.height - 1
    /\ Len(area.pixels) = area.bottom - area.top + 1
    /\ \A j \in 1..Len(area.pixels) :
         /\ Len(area.pixels[j]) = area.right - area.left + 1
         /\ \A i \in 1..Len(area.pixels[j]) :
              /\ <<area.left + i - 1, area.top + j - 1>> \in Coordinates
              /\ area.pixels[j][i] =
                   Pixel(<<Num(InByte(area.left + i - 1, area.top + j - 1, "r")),
                           Num(InByte(area.left + i - 1, area.top + j - 1, "g")),
                           Num(InByte(area.left + i - 1, area.top + j - 1, "b")),
                           Num(imgData.data[((area.top + j - 1) * imgData.width
                                             + area.left + i - 1) * 4 + 4])>>)

\* An iteration at the right edge of a 3x3 image: the window is cut on the
\* right and whole above and below
NeighbourhoodClampingWitness ==
  /\ area # NoArea
  /\ pc = "loop"
  /\ half_size = 1
  /\ imgData.width = 3
  /\ imgData.height = 3
  /\ area.center = [x |-> 2, y |-> 1]
  /\ area.left = 1
  /\ area.right = 2
  /\ Len(area.pixels) = 3
  /\ Len(area.pixels[1]) = 2

====
